---- MODULE Spec2Model ----
(***************************************************************************)
(* UAEF: the trust ledger (uaef/ledger), the workflow engine               *)
(* (uaef/agents/workflow.py) and the settlement trigger                    *)
(* (uaef/settlement/service.py) as one state machine.                      *)
(*                                                                         *)
(* The specifications share the variables:                                 *)
(*   Spec           the workflow engine driving ledger and settlement      *)
(*   LedgerSpec     the ledger API used by a single writer                 *)
(*   WritersSpec    several sessions calling record_event concurrently     *)
(*   TamperSpec     the ledger API and one altered payload                 *)
(*   DefinitionSpec create_definition on the tasks and edges of a caller   *)
(*   SettlementSpec the settlement API on the signals of an execution      *)
(*   BlockSpec      create_block and verify_block on one writer's ledger   *)
(*   MetricsSpec    several sessions calling update_agent_metrics          *)
(*   SchedulerSpec  get_ready_tasks on the task rows of a caller           *)
(*   ConditionSpec  _evaluate_conditions on a rule and workflow data       *)
(*   RegistrySpec   the agent registry and an execution of one agent task  *)
(*   StartSpec      create_definition, then start_workflow on its row      *)
(*   CompletionSpec start_workflow on an acyclic definition, every         *)
(*                  invocation succeeding, the engine running to its end   *)
(***************************************************************************)
EXTENDS Integers, Sequences, FiniteSets, TLC

VARIABLES
    ledger,      \* rows of ledger_events, in insertion order
    digests,     \* the strings hashed so far (see HashService)
    clock,       \* the wall clock, an instant
    result,      \* what the last API call returned
    writers,     \* per session: position inside record_event and its locals
    definition,  \* the WorkflowDefinition row
    agents,      \* the Agent rows
    rules,       \* the SettlementRule rows
    execution,   \* the WorkflowExecution row
    tasks,       \* the TaskExecution rows, in creation order
    stack,       \* the activations of execute_next_tasks, innermost last
    signals,     \* the SettlementSignal rows
    outside,     \* how many times complete_task was called from outside the engine
    blocks,      \* rows of ledger_blocks, in insertion order
    updates      \* per session: position inside update_agent_metrics; calls returned

vars == <<ledger, digests, clock, result, writers, definition, agents, rules,
          execution, tasks, stack, signals, outside, blocks,
          updates>>

ledgerVars == <<ledger, digests, clock, result, writers>>
engineVars == <<definition, agents, rules, execution, tasks, stack, signals, outside, blocks,
                updates>>

\* Python None in a string-valued column
NULL == "null"

-----------------------------------------------------------------------------
(* Bounds *)

MaxEvents == 3
MaxClock == 1
MaxWriters == 2
MaxEdges == 2
MaxSignals == 2
MaxSignalRetries == 1
MaxBlocks == 2
MaxMetricCalls == 3
MaxDeps == 2
MaxConditions == 2

-----------------------------------------------------------------------------
(* uaef/core/security.py: HashService.  SHA-256 is modelled as a collision- *)
(* free oracle: digests lists the strings hashed so far, and the digest of  *)
(* a string is its position in that list.  0 stands for the digest of a     *)
(* string that was never hashed: a value different from every digest that   *)
(* is stored anywhere.                                                      *)

hash(tbl, data) ==
    IF \E i \in 1..Len(tbl) : tbl[i] = data
    THEN CHOOSE i \in 1..Len(tbl) : tbl[i] = data
    ELSE 0

\* the oracle once data has been hashed
Hashed(tbl, data) == IF hash(tbl, data) = 0 THEN Append(tbl, data) ELSE tbl

\* f"{previous_hash}:{data}"
ChainInput(previous_hash, data) == [left |-> previous_hash, sep |-> ":", right |-> data]

\* json.dumps(event_data, sort_keys=True, separators=(",", ":"))
CanonicalJson(event_data) == [json |-> event_data]

hash_chain(tbl, previous_hash, data) == hash(tbl, ChainInput(previous_hash, data))

hash_event(tbl, event_data) == hash(tbl, CanonicalJson(event_data))

-----------------------------------------------------------------------------
(* Datetimes.  datetime.now(timezone.utc) is timezone-aware; a DateTime     *)
(* column without timezone gives back a naive datetime.                     *)

UtcNow(t) == [instant |-> t, tzinfo |-> "utc"]

\* server_default=func.now() on a DateTime() column: the server's clock at or
\* before the insert (transaction start, second precision), read back naive.
DbNow(t) == {[instant |-> i, tzinfo |-> "naive"] : i \in 0..t}

\* datetime.isoformat(): the UTC offset is appended for an aware datetime only
isoformat(dt) ==
    [text |-> dt.instant, offset |-> IF dt.tzinfo = "utc" THEN "+00:00" ELSE ""]

-----------------------------------------------------------------------------
(* uaef/ledger/events.py: LedgerEventService *)

SeqNumbers(l) == {l[i].sequence_number : i \in 1..Len(l)}

SetMax(S) == CHOOSE m \in S : \A x \in S : x <= m

\* as MaxSequence, with min in place of max
MaxSequence_min(l) ==
    IF l = <<>> THEN 0 ELSE CHOOSE m \in SeqNumbers(l) : \A x \in SeqNumbers(l) : m <= x

\* select coalesce(max(sequence_number), 0)
MaxSequence(l) == IF l = <<>> THEN 0 ELSE SetMax(SeqNumbers(l))

get_latest_sequence(l) == MaxSequence(l)

\* as PreviousHashes, reading the hash of the first event instead of the latest
PreviousHashes_genesis(l, last_sequence) ==
    IF last_sequence > 0
    THEN {<<l[i].event_hash>> : i \in {j \in 1..Len(l) : l[j].sequence_number = 1}}
    ELSE {<<>>}

\* select event_hash where sequence_number == last_sequence, .scalar():
\* the hashes the query can return (None, encoded <<>>, when last_sequence = 0)
PreviousHashes(l, last_sequence) ==
    IF last_sequence > 0
    THEN {<<l[i].event_hash>> : i \in {j \in 1..Len(l) : l[j].sequence_number = last_sequence}}
    ELSE {<<>>}

\* the arguments of one record_event call
EventArgs(event_type, payload, workflow_id, task_id, agent_id) ==
    [event_type |-> event_type, payload |-> payload, workflow_id |-> workflow_id,
     task_id |-> task_id, agent_id |-> agent_id,
     actor_type |-> "system", actor_id |-> NULL]

HashData(sequence, a, previous_hash, timestamp) ==
    [sequence |-> sequence, type |-> a.event_type, workflow_id |-> a.workflow_id,
     task_id |-> a.task_id, agent_id |-> a.agent_id, actor_type |-> a.actor_type,
     actor_id |-> a.actor_id, payload |-> a.payload,
     previous_hash |-> previous_hash, timestamp |-> timestamp]

\* "Calculate event hash": chained to the previous hash when there is one
EventHash(tbl, hash_data, previous_hash) ==
    IF previous_hash # <<>>
    THEN hash_chain(tbl, previous_hash[1], hash_event(tbl, hash_data))
    ELSE hash_event(tbl, hash_data)

\* the oracle after the one or two hash calls of EventHash
HashedEvent(tbl, hash_data, previous_hash) ==
    LET t1 == Hashed(tbl, CanonicalJson(hash_data))
    IN  IF previous_hash # <<>>
        THEN Hashed(t1, ChainInput(previous_hash[1], hash_event(t1, hash_data)))
        ELSE t1

\* record_event from "Prepare event data for hashing" to the LedgerEvent row;
\* tbl is the oracle after the event's hash calls
BuildEvent(tbl, id, last_sequence, previous_hash, a, now, created_at) ==
    LET next_sequence == last_sequence + 1
        hash_data == HashData(next_sequence, a, previous_hash, isoformat(UtcNow(now)))
    IN  [id |-> id,
         sequence_number |-> next_sequence,
         event_type |-> a.event_type,
         workflow_id |-> a.workflow_id,
         task_id |-> a.task_id,
         agent_id |-> a.agent_id,
         payload |-> a.payload,
         actor_type |-> a.actor_type,
         actor_id |-> a.actor_id,
         previous_hash |-> previous_hash,
         event_hash |-> EventHash(tbl, hash_data, previous_hash),
         created_at |-> created_at]

DigestsAfter(tbl, last_sequence, previous_hash, a, now) ==
    HashedEvent(tbl, HashData(last_sequence + 1, a, previous_hash, isoformat(UtcNow(now))),
                previous_hash)

\* the unique index on event_hash (the only unique column besides id)
InsertAccepted(l, ev) == \A i \in 1..Len(l) : l[i].event_hash # ev.event_hash

\* record_event run without interleaving, on db = [ledger, digests]
record_event(db, a, now, created_at) ==
    LET last_sequence == MaxSequence(db.ledger)
        previous_hash == CHOOSE h \in PreviousHashes(db.ledger, last_sequence) : TRUE
        tbl == DigestsAfter(db.digests, last_sequence, previous_hash, a, now)
        event == BuildEvent(tbl, Len(db.ledger) + 1, last_sequence, previous_hash,
                            a, now, created_at)
    IN  [ledger |-> Append(db.ledger, event), digests |-> tbl]

\* verify_event / verify_chain: the hash recomputed from the stored row
ExpectedHash(tbl, ev) ==
    EventHash(tbl,
              HashData(ev.sequence_number,
                       [event_type |-> ev.event_type, payload |-> ev.payload,
                        workflow_id |-> ev.workflow_id, task_id |-> ev.task_id,
                        agent_id |-> ev.agent_id, actor_type |-> ev.actor_type,
                        actor_id |-> ev.actor_id],
                       ev.previous_hash, isoformat(ev.created_at)),
              ev.previous_hash)

\* uaef/ledger/verification.py: VerificationService.verify_event
verify_event(l, tbl, event_id) ==
    LET found == {i \in 1..Len(l) : l[i].id = event_id}
    IN  IF found = {} THEN [ok |-> FALSE, error |-> "not found"]
        ELSE LET event == l[CHOOSE i \in found : TRUE]
             IN  IF event.event_hash # ExpectedHash(tbl, event)
                 THEN [ok |-> FALSE, error |-> "Hash mismatch"]
                 ELSE [ok |-> TRUE, error |-> NULL]

\* where(sequence_number >= start, sequence_number <= end).order_by(sequence_number):
\* the rows of the range by ascending sequence number
RECURSIVE EventRange(_, _, _)
EventRange(l, start_sequence, end_sequence) ==
    IF start_sequence > end_sequence THEN <<>>
    ELSE SelectSeq(l, LAMBDA ev : ev.sequence_number = start_sequence)
         \o EventRange(l, start_sequence + 1, end_sequence)

\* the loop of verify_chain_range: the errors appended for the events left,
\* previous_hash being the hash of the event before (None, <<>>, at the start)
RECURSIVE ChainErrors(_, _, _, _)
ChainErrors(l, tbl, events, previous_hash) ==
    IF events = <<>> THEN <<>>
    ELSE LET event == Head(events)
             checked == verify_event(l, tbl, event.id)
         IN  (IF event.previous_hash # previous_hash
              THEN <<[sequence |-> event.sequence_number,
                      error |-> "Chain break - previous hash mismatch"]>>
              ELSE <<>>)
             \o (IF ~checked.ok
                 THEN <<[sequence |-> event.sequence_number, error |-> checked.error]>>
                 ELSE <<>>)
             \o ChainErrors(l, tbl, Tail(events), <<event.event_hash>>)

\* uaef/ledger/verification.py: VerificationService.verify_chain_range
verify_chain_range(l, tbl, start_sequence, end_sequence) ==
    LET errors == ChainErrors(l, tbl, EventRange(l, start_sequence, end_sequence), <<>>)
    IN  [ok |-> Len(errors) = 0, errors |-> errors]

-----------------------------------------------------------------------------
(* uaef/ledger/verification.py: blocks *)

\* left + right, two hex digests one after the other
Concat(left, right) == [cat |-> <<left, right>>]

\* the string ""
EmptyString == [text |-> ""]

\* one pass of the for loop from position i: the next level, and the oracle
\* after the pass's hash calls
RECURSIVE NextLevel(_, _, _)
NextLevel(tbl, current_level, i) ==
    IF i > Len(current_level) THEN [level |-> <<>>, digests |-> tbl]
    ELSE LET left == current_level[i]
             right == IF i + 1 <= Len(current_level) THEN current_level[i + 1] ELSE left
             t1 == Hashed(tbl, Concat(left, right))
             rest == NextLevel(t1, current_level, i + 2)
         IN  [level |-> <<hash(t1, Concat(left, right))>> \o rest.level,
              digests |-> rest.digests]

\* while len(current_level) > 1
RECURSIVE MerkleLoop(_, _)
MerkleLoop(tbl, current_level) ==
    IF Len(current_level) <= 1 THEN [root |-> current_level[1], digests |-> tbl]
    ELSE LET next == NextLevel(tbl, current_level, 1)
         IN  MerkleLoop(next.digests, next.level)

\* the root, and the oracle after the hash calls made on the way
_calculate_merkle_root(tbl, hashes) ==
    IF hashes = <<>>
    THEN [root |-> hash(Hashed(tbl, EmptyString), EmptyString),
          digests |-> Hashed(tbl, EmptyString)]
    ELSE IF Len(hashes) = 1 THEN [root |-> hashes[1], digests |-> tbl]
    ELSE MerkleLoop(tbl, hashes)

EventHashes(events) == [k \in 1..Len(events) |-> events[k].event_hash]

BlockData(block_number, start_sequence, end_sequence, merkle_root, previous_block_hash) ==
    [block_number |-> block_number, start_sequence |-> start_sequence,
     end_sequence |-> end_sequence, merkle_root |-> merkle_root,
     previous_block_hash |-> previous_block_hash]

\* select coalesce(max(block_number), 0)
MaxBlockNumber(bs) ==
    IF bs = <<>> THEN 0 ELSE SetMax({bs[i].block_number : i \in 1..Len(bs)})

\* order_by(block_number.desc()).limit(1): the hash of the latest block (None, <<>>)
PreviousBlockHash(bs) ==
    IF bs = <<>> THEN <<>>
    ELSE <<bs[CHOOSE i \in 1..Len(bs) : bs[i].block_number = MaxBlockNumber(bs)].block_hash>>

\* as StoredMerkleRoot, storing the hash of the first event of the range
StoredMerkleRoot_first_leaf(merkle, events) == events[1].event_hash

\* the merkle_root create_block puts into the block
StoredMerkleRoot(merkle, events) == merkle.root

\* create_block on db = [ledger, digests, blocks]; ok is false when it raised
create_block(db, start_sequence, end_sequence) ==
    LET events == EventRange(db.ledger, start_sequence, end_sequence)
    IN  IF events = <<>> THEN [db EXCEPT !.ok = FALSE]
        ELSE LET merkle == _calculate_merkle_root(db.digests, EventHashes(events))
                 merkle_root == StoredMerkleRoot(merkle, events)
                 previous_block_hash == PreviousBlockHash(db.blocks)
                 next_block_number == MaxBlockNumber(db.blocks) + 1
                 block_data == BlockData(next_block_number, start_sequence, end_sequence,
                                         merkle_root, previous_block_hash)
                 tbl == Hashed(merkle.digests, CanonicalJson(block_data))
                 block == [block_number |-> next_block_number,
                           start_sequence |-> start_sequence,
                           end_sequence |-> end_sequence,
                           event_count |-> Len(events),
                           previous_block_hash |-> previous_block_hash,
                           block_hash |-> hash_event(tbl, block_data),
                           merkle_root |-> merkle_root]
             IN  [ledger |-> db.ledger, digests |-> tbl,
                  blocks |-> Append(db.blocks, block), ok |-> TRUE]

verify_block(l, tbl, bs, block_number) ==
    LET found == {i \in 1..Len(bs) : bs[i].block_number = block_number}
    IN  IF found = {} THEN [ok |-> FALSE, error |-> "not found"]
        ELSE LET block == bs[CHOOSE i \in found : TRUE]
                 events == EventRange(l, block.start_sequence, block.end_sequence)
                 expected_root == _calculate_merkle_root(tbl, EventHashes(events)).root
                 block_data == BlockData(block.block_number, block.start_sequence,
                                         block.end_sequence, block.merkle_root,
                                         block.previous_block_hash)
                 expected_hash == hash_event(tbl, block_data)
             IN  IF block.merkle_root # expected_root
                 THEN [ok |-> FALSE, error |-> "Merkle root mismatch"]
                 ELSE IF block.block_hash # expected_hash
                 THEN [ok |-> FALSE, error |-> "Block hash mismatch"]
                 ELSE [ok |-> TRUE, error |-> NULL]

-----------------------------------------------------------------------------
(* The rows a run starts from *)

ExecutionId == "wf-1"
DefinitionId == "def-1"
TaskExecIds == <<"task-1", "task-2", "task-3", "task-4">>

TaskDef(id, type, capability) == [id |-> id, type |-> type, capability |-> capability]
Edge(from, to) == [from |-> from, to |-> to]

\* fan-out/fan-in: A->B, A->C, B->D, C->D
DiamondDefinition ==
    [id |-> DefinitionId, name |-> "diamond", is_active |-> TRUE,
     tasks |-> <<TaskDef("A", "agent", "test"), TaskDef("B", "agent", "test"),
                 TaskDef("C", "agent", "test"), TaskDef("D", "agent", "test")>>,
     edges |-> <<Edge("A", "B"), Edge("A", "C"), Edge("B", "D"), Edge("C", "D")>>]

\* three independent agent tasks
IndependentDefinition ==
    [id |-> DefinitionId, name |-> "independent", is_active |-> TRUE,
     tasks |-> <<TaskDef("A", "agent", "test"), TaskDef("B", "agent", "test"),
                 TaskDef("C", "agent", "test")>>,
     edges |-> <<>>]

\* every task type; D asks for a capability no agent has
MixedDefinition ==
    [id |-> DefinitionId, name |-> "mixed", is_active |-> TRUE,
     tasks |-> <<TaskDef("A", "parallel", NULL), TaskDef("B", "decision", NULL),
                 TaskDef("C", "human_approval", NULL), TaskDef("D", "agent", "audit")>>,
     edges |-> <<Edge("A", "B"), Edge("A", "C"), Edge("C", "D")>>]

\* a definition whose is_active was set to false after its creation
InactiveDefinition ==
    [id |-> DefinitionId, name |-> "inactive", is_active |-> FALSE,
     tasks |-> <<TaskDef("A", "agent", "test")>>,
     edges |-> <<>>]

\* two independent tasks that complete at once, and an approval
ApprovalDefinition ==
    [id |-> DefinitionId, name |-> "approval", is_active |-> TRUE,
     tasks |-> <<TaskDef("A", "parallel", NULL), TaskDef("B", "parallel", NULL),
                 TaskDef("C", "human_approval", NULL)>>,
     edges |-> <<>>]

Definitions ==
    {DiamondDefinition, IndependentDefinition, MixedDefinition, InactiveDefinition,
     ApprovalDefinition}

AgentRow(status) ==
    [id |-> "agent-1", name |-> "agent-1", agent_type |-> "claude", status |-> status,
     capabilities |-> {"test"}, total_tasks |-> 0, successful_tasks |-> 0,
     failed_tasks |-> 0]

AgentTables == {<<AgentRow("active")>>, <<AgentRow("registered")>>}

\* a value of the workflow data or of a condition: None, a string or a number;
\* approval_threshold is <<>> for None and <<amount>> otherwise
None == [t |-> "none", s |-> "", n |-> 0]
Str(s) == [t |-> "str", s |-> s, n |-> 0]
Num(n) == [t |-> "num", s |-> "", n |-> n]

\* a nested map as a value of the workflow data
Dict(d) == [t |-> "dict", s |-> "", n |-> 0, d |-> d]

Cond(key, op, expected) == [key |-> key, op |-> op, expected |-> expected]

Rule(name, active, scope, conditions, amount, requires_approval, threshold) ==
    [id |-> name, name |-> name, is_active |-> active, workflow_definition_id |-> scope,
     trigger_conditions |-> conditions, amount_type |-> "fixed", fixed_amount |-> amount,
     currency |-> "USD", recipient_type |-> "agent", fixed_recipient_id |-> NULL,
     requires_approval |-> requires_approval, approval_threshold |-> threshold]

OnCompleted == Rule("r1-completed", TRUE, NULL, <<Cond("status", "eq", Str("completed"))>>, 75, TRUE, <<50>>)
OnThreeTasks == Rule("r2-three", TRUE, DefinitionId, <<Cond("completed_tasks", "$gte", Num(3))>>, 10, FALSE, <<>>)
Inactive == Rule("r3-inactive", FALSE, NULL, <<>>, 5, FALSE, <<>>)

\* the settlement_rules table, rows in name order
RuleTables == {<<OnCompleted>>, <<OnThreeTasks, Inactive>>}

\* rules on either side of the approval threshold
AtThreshold == Rule("r4-at-threshold", TRUE, NULL, <<Cond("status", "eq", Str("completed"))>>, 50, TRUE, <<50>>)
BelowThreshold == Rule("r5-below-threshold", TRUE, NULL, <<Cond("completed_tasks", "$gte", Num(1))>>, 10, TRUE, <<50>>)
NoThreshold == Rule("r6-no-threshold", TRUE, NULL, <<Cond("status", "eq", Str("failed"))>>, 10, TRUE, <<>>)
NoApproval == Rule("r7-no-approval", TRUE, NULL, <<Cond("status", "eq", Str("failed"))>>, 75, FALSE, <<50>>)

\* a rule of another definition, and a rule of this one
OtherScope == Rule("r8-other-scope", TRUE, "def-2", <<>>, 20, FALSE, <<>>)
ThisScope == Rule("r9-this-scope", TRUE, DefinitionId, <<Cond("status", "eq", Str("completed"))>>, 30, FALSE, <<>>)

SettlementRuleTables ==
    {<<OnCompleted, Inactive>>, <<AtThreshold, BelowThreshold>>, <<NoThreshold, NoApproval>>,
     <<OtherScope, ThisScope>>}

\* one agent task
SingleDefinition ==
    [id |-> DefinitionId, name |-> "single", is_active |-> TRUE,
     tasks |-> <<TaskDef("A", "agent", "test")>>,
     edges |-> <<>>]

NoExecution ==
    [id |-> NULL, definition_id |-> NULL, status |-> "none", total_tasks |-> 0,
     completed_tasks |-> 0, error_message |-> NULL]

-----------------------------------------------------------------------------
(* The store a handler works on: what one session sees and writes *)

Store ==
    [ledger |-> ledger, digests |-> digests, agents |-> agents, execution |-> execution, tasks |-> tasks,
     stack |-> stack, signals |-> signals]

\* event_service.record_event as the engine calls it (one session, no interleaving)
Emit(s, a) ==
    LET db == record_event([ledger |-> s.ledger, digests |-> s.digests], a, clock,
                           [instant |-> clock, tzinfo |-> "naive"])
    IN  [s EXCEPT !.ledger = db.ledger, !.digests = db.digests]

TerminalTaskStatuses == {"completed", "failed", "skipped", "cancelled"}

-----------------------------------------------------------------------------
(* uaef/agents/workflow.py: TaskScheduler *)

\* as resolve_dependencies, without the check of the dependencies' status
resolve_dependencies_any_status(ts, t) ==
    IF ts[t].depends_on = <<>> THEN TRUE
    ELSE LET deps == ts[t].depends_on
             dependent_tasks ==
             {j \in 1..Len(ts) : /\ \E k \in 1..Len(deps) : ts[j].id = deps[k]
                                 /\ ts[j].workflow_execution_id = ts[t].workflow_execution_id}
         IN  Cardinality(dependent_tasks) = Len(deps)

resolve_dependencies(ts, t) ==
    IF ts[t].depends_on = <<>> THEN TRUE
    ELSE LET deps == ts[t].depends_on
             dependent_tasks ==
             {j \in 1..Len(ts) : /\ \E k \in 1..Len(deps) : ts[j].id = deps[k]
                                 /\ ts[j].workflow_execution_id = ts[t].workflow_execution_id}
         IN  /\ Cardinality(dependent_tasks) = Len(deps)
             /\ \A j \in dependent_tasks : ts[j].status = "completed"

IsReady(ts, execution_id, t) ==
    /\ ts[t].workflow_execution_id = execution_id
    /\ ts[t].status = "pending"
    /\ resolve_dependencies(ts, t)

RECURSIVE ReadyFrom(_, _, _)
ReadyFrom(ts, execution_id, t) ==
    IF t > Len(ts) THEN <<>>
    ELSE (IF IsReady(ts, execution_id, t) THEN <<t>> ELSE <<>>)
         \o ReadyFrom(ts, execution_id, t + 1)

\* the ready tasks (as row numbers), in creation order
get_ready_tasks(ts, execution_id) == ReadyFrom(ts, execution_id, 1)

-----------------------------------------------------------------------------
(* uaef/agents/agents.py: AgentRegistry *)

\* "if capability:": None and the empty string select no filter
Given(capability) == capability \notin {NULL, ""}

\* as list_agents, without the filter on the status
list_agents_any_status(ag, agent_type, capability) ==
    SelectSeq(ag, LAMBDA a : /\ a.agent_type = agent_type
                              /\ (Given(capability) => capability \in a.capabilities))

\* list_agents(status=ACTIVE, agent_type, capability), rows in name order
list_agents(ag, agent_type, capability) ==
    SelectSeq(ag, LAMBDA a : /\ a.status = "active"
                              /\ a.agent_type = agent_type
                              /\ (Given(capability) => capability \in a.capabilities))

\* the matching agents: empty, or the first of the list
find_available_agent(ag, capability) ==
    LET found == list_agents(ag, "claude", capability)
    IN  IF found = <<>> THEN <<>> ELSE <<found[1]>>

update_agent_metrics(s, agent_id, success) ==
    [s EXCEPT !.agents =
        [i \in 1..Len(@) |->
            IF @[i].id = agent_id
            THEN [@[i] EXCEPT !.total_tasks = @ + 1,
                              !.successful_tasks = IF success THEN @ + 1 ELSE @,
                              !.failed_tasks = IF success THEN @ ELSE @ + 1]
            ELSE @[i]]]

-----------------------------------------------------------------------------
(* uaef/settlement/service.py: SettlementService *)

\* data.get(key)
DataGet(data, key) == IF key \in DOMAIN data THEN data[key] ELSE None

\* key.split("."), for the keys in use
split(key) ==
    CASE key = "output.score" -> <<"output", "score">>
      [] key = "output.region" -> <<"output", "region">>
      [] OTHER -> <<key>>

\* "Handle nested keys with dot notation": the walk along the parts
RECURSIVE Walk(_, _)
Walk(actual, parts) ==
    IF parts = <<>> THEN actual
    ELSE IF actual.t = "dict" THEN Walk(DataGet(actual.d, Head(parts)), Tail(parts))
    ELSE None

\* the value an entry is compared with
Actual(data, key) ==
    IF Len(split(key)) > 1 THEN Walk(Dict(data), split(key)) ELSE DataGet(data, key)

ConditionHolds(c, data) ==
    LET actual == Actual(data, c.key)
    IN  CASE c.op \in {"eq", "$eq"} -> actual = c.expected
          [] c.op = "$gt"  -> ~(actual = None \/ actual.n <= c.expected.n)
          [] c.op = "$gte" -> ~(actual = None \/ actual.n < c.expected.n)
          [] c.op = "$lt"  -> ~(actual = None \/ actual.n >= c.expected.n)
          [] c.op = "$lte" -> ~(actual = None \/ actual.n > c.expected.n)
          [] c.op = "$in"  -> actual \in c.expected
          [] OTHER -> TRUE

\* AND over the entries; an empty map holds
_evaluate_conditions(conditions, data) ==
    \A k \in 1..Len(conditions) : ConditionHolds(conditions[k], data)

\* where(is_active == True), narrowed to the definition's rules and the unscoped ones
list_active_rules(rs, workflow_definition_id) ==
    SelectSeq(rs, LAMBDA r : /\ r.is_active
                              /\ (workflow_definition_id # NULL =>
                                    \/ r.workflow_definition_id = workflow_definition_id
                                    \/ r.workflow_definition_id = NULL))

\* as InitialStatus, the threshold met only by a larger amount
InitialStatus_above(rule, amount) ==
    IF /\ rule.requires_approval
       /\ (rule.approval_threshold = <<>> \/ amount > rule.approval_threshold[1])
    THEN "pending" ELSE "approved"

\* "Determine initial status"
InitialStatus(rule, amount) ==
    IF /\ rule.requires_approval
       /\ (rule.approval_threshold = <<>> \/ amount >= rule.approval_threshold[1])
    THEN "pending" ELSE "approved"

_generate_signal(s, rule, workflow_execution_id, workflow_data) ==
    LET amount == CASE rule.amount_type = "fixed" -> rule.fixed_amount
                    [] rule.amount_type = "variable" ->
                         DataGet(workflow_data, "settlement_amount").n
                    [] OTHER -> 0
        recipient_id == IF rule.fixed_recipient_id # NULL THEN rule.fixed_recipient_id
                        ELSE IF "primary_agent_id" \in DOMAIN workflow_data
                             THEN workflow_data["primary_agent_id"].s
                             ELSE "unknown"
        status == InitialStatus(rule, amount)
        signal == [id |-> Len(s.signals) + 1,
                   workflow_execution_id |-> workflow_execution_id,
                   settlement_rule_id |-> rule.id, amount |-> amount,
                   currency |-> rule.currency, recipient_type |-> rule.recipient_type,
                   recipient_id |-> recipient_id, status |-> status,
                   approved_by |-> NULL, approved_at |-> <<>>,
                   processed_at |-> <<>>, transaction_id |-> NULL,
                   error_message |-> NULL, retry_count |-> 0]
    IN  Emit([s EXCEPT !.signals = Append(@, signal)],
             EventArgs("settlement_triggered",
                       [signal_id |-> signal.id, rule_name |-> rule.name,
                        amount |-> amount, status |-> status],
                       workflow_execution_id, NULL, NULL))

RECURSIVE EvaluateRules(_, _, _, _)
EvaluateRules(s, rs, workflow_execution_id, workflow_data) ==
    IF rs = <<>> THEN s
    ELSE EvaluateRules(
            IF _evaluate_conditions(Head(rs).trigger_conditions, workflow_data)
            THEN _generate_signal(s, Head(rs), workflow_execution_id, workflow_data)
            ELSE s,
            Tail(rs), workflow_execution_id, workflow_data)

evaluate_triggers(s, workflow_execution_id, workflow_data) ==
    LET definition_id == DataGet(workflow_data, "definition_id")
        workflow_definition_id == IF definition_id = None THEN NULL ELSE definition_id.s
    IN  EvaluateRules(s, list_active_rules(rules, workflow_definition_id),
                      workflow_execution_id, workflow_data)

\* as approve_signal, setting the status only
approve_signal_status_only(s, k, approved_by) ==
    [s EXCEPT !.signals[k].status = "approved"]

\* approve_signal past its checks
approve_signal(s, k, approved_by) ==
    [s EXCEPT !.signals[k].status = "approved",
              !.signals[k].approved_by = approved_by,
              !.signals[k].approved_at = <<UtcNow(clock)>>]

\* process_signal past its checks
process_signal(s, k, transaction_id) ==
    Emit([s EXCEPT !.signals[k].status = "completed",
                   !.signals[k].processed_at = <<UtcNow(clock)>>,
                   !.signals[k].transaction_id = transaction_id],
         EventArgs("settlement_completed",
                   [signal_id |-> s.signals[k].id, transaction_id |-> transaction_id,
                    amount |-> s.signals[k].amount],
                   s.signals[k].workflow_execution_id, NULL, NULL))

fail_signal(s, k, error_message) ==
    Emit([s EXCEPT !.signals[k].status = "failed",
                   !.signals[k].error_message = error_message,
                   !.signals[k].retry_count = @ + 1],
         EventArgs("settlement_failed",
                   [signal_id |-> s.signals[k].id, error |-> error_message,
                    retry_count |-> s.signals[k].retry_count + 1],
                   s.signals[k].workflow_execution_id, NULL, NULL))

\* as CanProcess, accepting a signal in any status
CanProcess_any(signal) == TRUE

\* "Signal is not pending approval"
CanApprove(signal) == signal.status = "pending"

\* "Signal must be approved before processing"
CanProcess(signal) == signal.status \in {"approved", "processing"}

-----------------------------------------------------------------------------
(* uaef/agents/workflow.py: WorkflowService *)

\* as DependsOnDefIds, the edges read from "from" to "to"
RECURSIVE DependsOnDefIds_forward(_, _)
DependsOnDefIds_forward(edges, task_id) ==
    IF edges = <<>> THEN <<>>
    ELSE (IF Head(edges).from = task_id THEN <<Head(edges).to>> ELSE <<>>)
         \o DependsOnDefIds_forward(Tail(edges), task_id)

\* dependency_map of _create_task_executions: the "from" ids of the edges into a task
RECURSIVE DependsOnDefIds(_, _)
DependsOnDefIds(edges, task_id) ==
    IF edges = <<>> THEN <<>>
    ELSE (IF Head(edges).to = task_id THEN <<Head(edges).from>> ELSE <<>>)
         \o DependsOnDefIds(Tail(edges), task_id)

\* task_id_map: definition task id -> execution id, for the ids that are mapped
RECURSIVE MapToExecIds(_, _)
MapToExecIds(defn, def_ids) ==
    IF def_ids = <<>> THEN <<>>
    ELSE LET at == {k \in 1..Len(defn.tasks) : defn.tasks[k].id = Head(def_ids)}
         IN  (IF at = {} THEN <<>> ELSE <<TaskExecIds[SetMax(at)]>>)
             \o MapToExecIds(defn, Tail(def_ids))

_create_task_executions(defn) ==
    [k \in 1..Len(defn.tasks) |->
        [id |-> TaskExecIds[k],
         workflow_execution_id |-> ExecutionId,
         task_name |-> defn.tasks[k].id,
         task_type |-> defn.tasks[k].type,
         status |-> "pending",
         agent_id |-> NULL,
         input_data |-> [capability |-> defn.tasks[k].capability],
         depends_on |-> MapToExecIds(defn, DependsOnDefIds(defn.edges, defn.tasks[k].id)),
         retry_count |-> 0,
         error_message |-> NULL,
         approvals |-> 0]]

\* execute_next_tasks up to its loop: a new activation over the ready list
execute_next_tasks(s) ==
    [s EXCEPT !.stack = Append(@, [ready |-> get_ready_tasks(s.tasks, s.execution.id), i |-> 1])]

_fail_workflow(s, error_message) ==
    Emit([s EXCEPT !.execution.status = "failed",
                   !.execution.error_message = error_message],
         EventArgs("workflow_failed",
                   [workflow_name |-> definition.name, error |-> error_message],
                   s.execution.id, NULL, NULL))

_trigger_settlement(s) ==
    evaluate_triggers(s, s.execution.id,
        [definition_id |-> Str(s.execution.definition_id),
         status |-> Str(s.execution.status),
         completed_tasks |-> Num(s.execution.completed_tasks)])

\* as _complete_workflow, evaluating settlement before the event is recorded
_complete_workflow_settles_first(s) ==
    Emit(_trigger_settlement([s EXCEPT !.execution.status = "completed"]),
         EventArgs("workflow_completed",
                   [workflow_name |-> definition.name,
                    completed_tasks |-> s.execution.completed_tasks],
                   s.execution.id, NULL, NULL))

_complete_workflow(s) ==
    _trigger_settlement(
        Emit([s EXCEPT !.execution.status = "completed"],
             EventArgs("workflow_completed",
                       [workflow_name |-> definition.name,
                        completed_tasks |-> s.execution.completed_tasks],
                       s.execution.id, NULL, NULL)))

complete_task(s, t) ==
    LET s1 == Emit([s EXCEPT !.tasks[t].status = "completed"],
                   EventArgs("task_completed", [task_name |-> s.tasks[t].task_name],
                             s.tasks[t].workflow_execution_id, s.tasks[t].id, NULL))
        s2 == IF s1.tasks[t].agent_id # NULL
              THEN update_agent_metrics(s1, s1.tasks[t].agent_id, TRUE)
              ELSE s1
        s3 == [s2 EXCEPT !.execution.completed_tasks = @ + 1]
    IN  IF s3.execution.completed_tasks >= s3.execution.total_tasks
        THEN _complete_workflow(s3)
        ELSE execute_next_tasks(s3)

MaxRetries == 3

_handle_task_failure(s, t, error_message) ==
    LET s1 == [s EXCEPT !.tasks[t].error_message = error_message,
                        !.tasks[t].retry_count = @ + 1]
        payload == [task_name |-> s1.tasks[t].task_name,
                    retry_count |-> s1.tasks[t].retry_count, error |-> error_message]
    IN  IF s1.tasks[t].retry_count < MaxRetries
        THEN Emit([s1 EXCEPT !.tasks[t].status = "pending"],
                  EventArgs("task_retried", payload,
                            s1.tasks[t].workflow_execution_id, s1.tasks[t].id, NULL))
        ELSE LET s2 == Emit([s1 EXCEPT !.tasks[t].status = "failed"],
                            EventArgs("task_failed", payload,
                                      s1.tasks[t].workflow_execution_id, s1.tasks[t].id, NULL))
                 s3 == IF s2.tasks[t].agent_id # NULL
                       THEN update_agent_metrics(s2, s2.tasks[t].agent_id, FALSE)
                       ELSE s2
             IN  _fail_workflow(s3, "task failed")

\* _execute_task up to the dispatch on the task type
BeginTask(s, t) ==
    Emit([s EXCEPT !.tasks[t].status = "running"],
         EventArgs("task_started",
                   [task_name |-> s.tasks[t].task_name, task_type |-> s.tasks[t].task_type],
                   s.tasks[t].workflow_execution_id, s.tasks[t].id, NULL))

AgentEvent(s, t, agent, event_type) ==
    Emit(s, EventArgs(event_type, [agent_name |-> agent.name],
                      s.tasks[t].workflow_execution_id, s.tasks[t].id, agent.id))

\* as invoke, an exception leaving no event behind
invoke_unrecorded_error(s, t, agent, raised) ==
    IF raised THEN AgentEvent(s, t, agent, "agent_invoked")
    ELSE AgentEvent(AgentEvent(s, t, agent, "agent_invoked"), t, agent, "agent_response")

\* uaef/agents/agents.py: ClaudeAgentExecutor.invoke for task t; raised tells
\* whether the call to the model raised (the exception is raised again)
invoke(s, t, agent, raised) ==
    AgentEvent(AgentEvent(s, t, agent, "agent_invoked"), t, agent,
               IF raised THEN "agent_error" ELSE "agent_response")

-----------------------------------------------------------------------------
(* The engine's steps.  One session runs start_workflow (or an outside       *)
(* complete_task call) to its return; each step is one turn of the loop of   *)
(* the innermost execute_next_tasks, with everything that turn calls.        *)

NoResult == [op |-> "none", arg |-> 0, value |-> 0, ok |-> TRUE]

IdleWriters == [w \in 1..MaxWriters |->
                  [pc |-> "idle", args |-> EventArgs("none", [step |-> 0], NULL, NULL, NULL),
                   last_sequence |-> 0, previous_hash |-> <<>>]]

\* no session is inside update_agent_metrics, no call has returned
IdleUpdates ==
    [sessions |-> [w \in 1..MaxWriters |->
                      [pc |-> "idle", success |-> TRUE, total_tasks |-> 0,
                       successful_tasks |-> 0, failed_tasks |-> 0]],
     calls |-> 0]

Top == stack[Len(stack)]
CurTask == Top.ready[Top.i]
Dispatching == stack # <<>> /\ Top.i <= Len(Top.ready)

\* the loop moves on to its next entry once this turn is over
Advanced(s) == [s EXCEPT !.stack[Len(stack)].i = @ + 1]

\* activations whose loop is over return to their caller
RECURSIVE Unwind(_)
Unwind(st) ==
    IF st # <<>> /\ st[Len(st)].i > Len(st[Len(st)].ready)
    THEN Unwind(SubSeq(st, 1, Len(st) - 1))
    ELSE st

Commit(s) ==
    /\ ledger' = s.ledger
    /\ digests' = s.digests
    /\ agents' = s.agents
    /\ execution' = s.execution
    /\ tasks' = s.tasks
    /\ stack' = Unwind(s.stack)
    /\ signals' = s.signals
    /\ UNCHANGED <<clock, result, writers, definition, rules, blocks, updates>>

FromEngine == outside' = outside

Init ==
    /\ ledger = <<>>
    /\ digests = <<>>
    /\ clock = 0
    /\ result = NoResult
    /\ writers = IdleWriters
    /\ definition \in Definitions
    /\ agents \in AgentTables
    /\ rules \in RuleTables
    /\ execution = NoExecution
    /\ tasks = <<>>
    /\ stack = <<>>
    /\ signals = <<>>
    /\ outside = 0
    /\ blocks = <<>>
    /\ updates = IdleUpdates

\* as CanStart, without the is_active check
CanStart_any(defn) == TRUE

\* start_workflow's checks on the definition it loaded: there is one, and it
\* is active
CanStart(defn) == defn.id # NULL /\ defn.is_active

\* start_workflow raising ValueError: nothing was added to the session
StartWorkflowRejected ==
    /\ execution.status = "none"
    /\ stack = <<>>
    /\ ~CanStart(definition)
    /\ result' = [op |-> "start_workflow", arg |-> 0, value |-> 0, ok |-> FALSE]
    /\ UNCHANGED <<ledger, digests, clock, writers>>
    /\ UNCHANGED engineVars

StartWorkflow ==
    /\ FromEngine
    /\ execution.status = "none"
    /\ stack = <<>>
    /\ CanStart(definition)
    /\ LET s1 == [Store EXCEPT !.execution =
                     [id |-> ExecutionId, definition_id |-> definition.id,
                      status |-> "running", total_tasks |-> Len(definition.tasks),
                      completed_tasks |-> 0, error_message |-> NULL]]
           s2 == Emit(s1, EventArgs("workflow_started",
                                    [workflow_name |-> definition.name,
                                     task_count |-> Len(definition.tasks)],
                                    ExecutionId, NULL, NULL))
           s3 == [s2 EXCEPT !.tasks = _create_task_executions(definition)]
       IN  Commit(execute_next_tasks(s3))

\* _execute_agent_task up to the invocation: the agent found is assigned
AssignAgent(s, t, agent) == [s EXCEPT !.tasks[t].agent_id = agent.id]

DispatchAgentSuccess ==
    /\ FromEngine
    /\ Dispatching
    /\ tasks[CurTask].task_type = "agent"
    /\ LET t == CurTask
           found == find_available_agent(agents, tasks[t].input_data.capability)
       IN  /\ found # <<>>
           /\ Commit(complete_task(
                  invoke(AssignAgent(BeginTask(Advanced(Store), t), t, found[1]),
                         t, found[1], FALSE),
                  t))

DispatchAgentError ==
    /\ FromEngine
    /\ Dispatching
    /\ tasks[CurTask].task_type = "agent"
    /\ LET t == CurTask
           found == find_available_agent(agents, tasks[t].input_data.capability)
       IN  /\ found # <<>>
           /\ Commit(_handle_task_failure(
                  invoke(AssignAgent(BeginTask(Advanced(Store), t), t, found[1]),
                         t, found[1], TRUE),
                  t, "invocation failed"))

DispatchNoAgent ==
    /\ FromEngine
    /\ Dispatching
    /\ tasks[CurTask].task_type = "agent"
    /\ find_available_agent(agents, tasks[CurTask].input_data.capability) = <<>>
    /\ Commit(_handle_task_failure(BeginTask(Advanced(Store), CurTask), CurTask,
                                   "No available agent found"))

DispatchDecision ==
    /\ FromEngine
    /\ Dispatching
    /\ tasks[CurTask].task_type = "decision"
    /\ Commit(complete_task(BeginTask(Advanced(Store), CurTask), CurTask))

DispatchParallel ==
    /\ FromEngine
    /\ Dispatching
    /\ tasks[CurTask].task_type = "parallel"
    /\ Commit(complete_task(BeginTask(Advanced(Store), CurTask), CurTask))

DispatchHumanApproval ==
    /\ FromEngine
    /\ Dispatching
    /\ tasks[CurTask].task_type = "human_approval"
    /\ LET s1 == BeginTask(Advanced(Store), CurTask)
       IN  Commit([s1 EXCEPT !.tasks[CurTask].approvals = @ + 1,
                             !.tasks[CurTask].status = "waiting_input"])

\* complete_task called from outside the engine (an approval's answer, a test
\* driving the tasks by hand) on a task that is not yet in a terminal status
CompleteTaskCall(t) ==
    /\ stack = <<>>
    /\ execution.status # "none"
    /\ tasks[t].status \notin TerminalTaskStatuses
    /\ Commit(complete_task(Store, t))
    /\ outside' = outside + 1

\* the steps the engine takes by itself once start_workflow was called
EngineNext ==
    \/ StartWorkflow
    \/ StartWorkflowRejected
    \/ DispatchAgentSuccess
    \/ DispatchAgentError
    \/ DispatchNoAgent
    \/ DispatchDecision
    \/ DispatchParallel
    \/ DispatchHumanApproval

Next ==
    \/ EngineNext
    \/ \E t \in 1..Len(tasks) : CompleteTaskCall(t)

Spec == Init /\ [][Next]_vars

-----------------------------------------------------------------------------
(* The settlement API (SettlementSpec): the engine runs an execution of one  *)
(* task, and between the engine's calls a caller evaluates triggers and      *)
(* approves, processes and fails signals.                                    *)

SettlementInit ==
    /\ ledger = <<>>
    /\ digests = <<>>
    /\ clock = 0
    /\ result = NoResult
    /\ writers = IdleWriters
    /\ definition = SingleDefinition
    /\ agents = <<AgentRow("active")>>
    /\ rules \in SettlementRuleTables
    /\ execution = NoExecution
    /\ tasks = <<>>
    /\ stack = <<>>
    /\ signals = <<>>
    /\ outside = 0
    /\ blocks = <<>>
    /\ updates = IdleUpdates

\* the workflow data a caller of evaluate_triggers passes
WorkflowDataInputs ==
    {[definition_id |-> Str(DefinitionId), status |-> Str("completed"),
      completed_tasks |-> Num(1)],
     [status |-> Str("failed"), completed_tasks |-> Num(0)]}

\* what a settlement call leaves alone
SettlementFrame ==
    /\ UNCHANGED <<clock, writers>>
    /\ UNCHANGED <<definition, agents, rules, execution, tasks, stack, outside, blocks, updates>>

\* the rows a settlement call could not have touched when it raised
Rejected(op, k) ==
    /\ result' = [op |-> op, arg |-> k, value |-> 0, ok |-> FALSE]
    /\ UNCHANGED <<ledger, digests, signals>>

Accepted(op, k, s) ==
    /\ result' = [op |-> op, arg |-> k, value |-> 0, ok |-> TRUE]
    /\ ledger' = s.ledger
    /\ digests' = s.digests
    /\ signals' = s.signals

EvaluateTriggersCall(workflow_data) ==
    /\ execution.status # "none"
    /\ stack = <<>>
    /\ Len(signals) + Len(rules) <= MaxSignals
    /\ Accepted("evaluate_triggers", 0, evaluate_triggers(Store, ExecutionId, workflow_data))
    /\ SettlementFrame

ApproveSignalCall(k, approved_by) ==
    /\ stack = <<>>
    /\ IF CanApprove(signals[k])
       THEN Accepted("approve_signal", k, approve_signal(Store, k, approved_by))
       ELSE Rejected("approve_signal", k)
    /\ SettlementFrame

ProcessSignalCall(k, transaction_id) ==
    /\ stack = <<>>
    /\ IF CanProcess(signals[k])
       THEN Accepted("process_signal", k, process_signal(Store, k, transaction_id))
       ELSE Rejected("process_signal", k)
    /\ SettlementFrame

FailSignalCall(k, error_message) ==
    /\ stack = <<>>
    /\ signals[k].retry_count < MaxSignalRetries
    /\ Accepted("fail_signal", k, fail_signal(Store, k, error_message))
    /\ SettlementFrame

SettlementNext ==
    \/ StartWorkflow
    \/ DispatchAgentSuccess
    \/ DispatchAgentError
    \/ \E workflow_data \in WorkflowDataInputs : EvaluateTriggersCall(workflow_data)
    \/ \E k \in 1..Len(signals) : ApproveSignalCall(k, "alice")
    \/ \E k \in 1..Len(signals) : ProcessSignalCall(k, "txn-1")
    \/ \E k \in 1..Len(signals) : FailSignalCall(k, "declined")

SettlementSpec == SettlementInit /\ [][SettlementNext]_vars

-----------------------------------------------------------------------------
(* create_definition (DefinitionSpec): a caller hands in tasks and edges.    *)

NoDefinition ==
    [id |-> NULL, name |-> NULL, is_active |-> TRUE, tasks |-> <<>>, edges |-> <<>>]

\* the task lists and the edge lists a caller may pass; "X" is the id of no task
TaskLists ==
    {<<TaskDef("A", "agent", "test")>>,
     <<TaskDef("A", "agent", "test"), TaskDef("B", "agent", "test")>>,
     <<TaskDef("A", "agent", "test"), TaskDef("B", "agent", "test"),
       TaskDef("C", "agent", "test")>>}

EdgeEndpoints == {"A", "B", "C", "X"}

EdgeLists ==
    UNION {[1..n -> {Edge(from, to) : from \in EdgeEndpoints, to \in EdgeEndpoints}] :
              n \in 0..MaxEdges}

DefinitionInit ==
    /\ ledger = <<>>
    /\ digests = <<>>
    /\ clock = 0
    /\ result = NoResult
    /\ writers = IdleWriters
    /\ definition = NoDefinition
    /\ agents = <<AgentRow("active")>>
    /\ rules = <<OnCompleted>>
    /\ execution = NoExecution
    /\ tasks = <<>>
    /\ stack = <<>>
    /\ signals = <<>>
    /\ outside = 0
    /\ blocks = <<>>
    /\ updates = IdleUpdates

\* create_definition: the row is built from the arguments and flushed
CreateDefinitionCall(task_list, edge_list) ==
    /\ definition = NoDefinition
    /\ definition' = [id |-> DefinitionId, name |-> "created", is_active |-> TRUE,
                      tasks |-> task_list, edges |-> edge_list]
    /\ result' = [op |-> "create_definition", arg |-> Len(task_list),
                  value |-> Len(edge_list), ok |-> TRUE]
    /\ UNCHANGED <<ledger, digests, clock, writers>>
    /\ UNCHANGED <<agents, rules, execution, tasks, stack, signals, outside, blocks, updates>>

DefinitionNext ==
    \E task_list \in TaskLists : \E edge_list \in EdgeLists :
        CreateDefinitionCall(task_list, edge_list)

DefinitionSpec == DefinitionInit /\ [][DefinitionNext]_vars

-----------------------------------------------------------------------------
(* start_workflow on a created definition (StartSpec): the definition is     *)
(* whatever create_definition stored, and the engine runs its execution.     *)

StartNext ==
    \/ DefinitionNext
    \/ StartWorkflow
    \/ DispatchAgentSuccess

StartSpec == DefinitionInit /\ [][StartNext]_vars

-----------------------------------------------------------------------------
(* The ledger API used directly (LedgerSpec): one session, calls one after   *)
(* the other.                                                                *)

LedgerInputs ==
    {EventArgs("workflow_started", [step |-> 1], NULL, NULL, NULL),
     EventArgs("task_completed", [step |-> 2], "wf-123", "task-1", NULL)}

EngineIdle ==
    /\ definition = DiamondDefinition
    /\ agents = <<AgentRow("active")>>
    /\ rules = <<OnCompleted>>
    /\ execution = NoExecution
    /\ tasks = <<>>
    /\ stack = <<>>
    /\ signals = <<>>
    /\ outside = 0
    /\ blocks = <<>>
    /\ updates = IdleUpdates

LedgerInit ==
    /\ ledger = <<>>
    /\ digests = <<>>
    /\ clock = 0
    /\ result = NoResult
    /\ writers = IdleWriters
    /\ EngineIdle

Tick ==
    /\ clock < MaxClock
    /\ clock' = clock + 1
    /\ UNCHANGED <<ledger, digests, result, writers>>
    /\ UNCHANGED engineVars

\* record_event; the flush raises when the unique index rejects the row
RecordEventCall(a, created_at) ==
    /\ Len(ledger) < MaxEvents
    /\ LET db == record_event([ledger |-> ledger, digests |-> digests], a, clock, created_at)
           event == db.ledger[Len(db.ledger)]
       IN  /\ digests' = db.digests
           /\ IF InsertAccepted(ledger, event)
              THEN /\ ledger' = db.ledger
                   /\ result' = [op |-> "record_event", arg |-> event.id,
                                 value |-> event.sequence_number, ok |-> TRUE]
              ELSE /\ ledger' = ledger
                   /\ result' = [op |-> "record_event", arg |-> 0, value |-> 0, ok |-> FALSE]
    /\ UNCHANGED <<clock, writers>>
    /\ UNCHANGED engineVars

GetLatestSequenceCall ==
    /\ result' = [op |-> "get_latest_sequence", arg |-> 0,
                  value |-> get_latest_sequence(ledger), ok |-> TRUE]
    /\ UNCHANGED <<ledger, digests, clock, writers>>
    /\ UNCHANGED engineVars

VerifyEventCall(event_id) ==
    /\ result' = [op |-> "verify_event", arg |-> event_id, value |-> 0,
                  ok |-> verify_event(ledger, digests, event_id).ok]
    /\ UNCHANGED <<ledger, digests, clock, writers>>
    /\ UNCHANGED engineVars

VerifyChainRangeCall(start_sequence, end_sequence) ==
    /\ start_sequence <= end_sequence
    /\ result' = [op |-> "verify_chain_range", arg |-> start_sequence,
                  value |-> end_sequence,
                  ok |-> verify_chain_range(ledger, digests, start_sequence, end_sequence).ok]
    /\ UNCHANGED <<ledger, digests, clock, writers>>
    /\ UNCHANGED engineVars

LedgerNext ==
    \/ Tick
    \/ \E a \in LedgerInputs : \E created_at \in DbNow(clock) : RecordEventCall(a, created_at)
    \/ GetLatestSequenceCall
    \/ \E event_id \in 1..Len(ledger) : VerifyEventCall(event_id)
    \/ \E start_sequence, end_sequence \in 1..Len(ledger) :
          VerifyChainRangeCall(start_sequence, end_sequence)

LedgerSpec == LedgerInit /\ [][LedgerNext]_vars

-----------------------------------------------------------------------------
(* A stored event altered behind the ledger's back (TamperSpec): the ledger  *)
(* API of one session, and one write to the payload column of a stored row.  *)

TamperedPayload == [step |-> -1]

Tampered(l) == {i \in 1..Len(l) : l[i].payload = TamperedPayload}

\* update ledger_events set payload = ... where sequence_number = k
TamperPayload(k) ==
    /\ Tampered(ledger) = {}
    /\ ledger' = [ledger EXCEPT ![k].payload = TamperedPayload]
    /\ result' = NoResult
    /\ UNCHANGED <<digests, clock, writers>>
    /\ UNCHANGED engineVars

TamperNext ==
    \/ \E a \in LedgerInputs : \E created_at \in DbNow(clock) : RecordEventCall(a, created_at)
    \/ \E k \in 1..Len(ledger) : TamperPayload(k)
    \/ \E event_id \in 1..Len(ledger) : VerifyEventCall(event_id)
    \/ \E start_sequence, end_sequence \in 1..Len(ledger) :
          VerifyChainRangeCall(start_sequence, end_sequence)

TamperSpec == LedgerInit /\ [][TamperNext]_vars

-----------------------------------------------------------------------------
(* Blocks (BlockSpec): one session records events, finalizes blocks over the  *)
(* ranges a caller passes and verifies them; the payload of the first stored  *)
(* event may be altered behind the ledger's back.                             *)

BlockInputs == {EventArgs("task_completed", [step |-> 2], "wf-123", "task-1", NULL)}

CreateBlockCall(start_sequence, end_sequence) ==
    /\ Len(blocks) < MaxBlocks
    /\ LET db == create_block([ledger |-> ledger, digests |-> digests, blocks |-> blocks,
                               ok |-> TRUE],
                              start_sequence, end_sequence)
       IN  /\ digests' = db.digests
           /\ blocks' = db.blocks
           /\ result' = [op |-> "create_block", arg |-> MaxBlockNumber(db.blocks),
                         value |-> 0, ok |-> db.ok]
    /\ UNCHANGED <<ledger, clock, writers>>
    /\ UNCHANGED <<definition, agents, rules, execution, tasks, stack, signals, outside, updates>>

VerifyBlockCall(block_number) ==
    /\ result' = [op |-> "verify_block", arg |-> block_number, value |-> 0,
                  ok |-> verify_block(ledger, digests, blocks, block_number).ok]
    /\ UNCHANGED <<ledger, digests, clock, writers>>
    /\ UNCHANGED engineVars

BlockNext ==
    \/ \E a \in BlockInputs : \E created_at \in DbNow(clock) : RecordEventCall(a, created_at)
    \/ ledger # <<>> /\ TamperPayload(1)
    \/ \E start_sequence, end_sequence \in 1..MaxEvents :
          CreateBlockCall(start_sequence, end_sequence)
    \/ \E block_number \in 1..Len(blocks) : VerifyBlockCall(block_number)

BlockSpec == LedgerInit /\ [][BlockNext]_vars

-----------------------------------------------------------------------------
(* update_agent_metrics called from several sessions (MetricsSpec).  Each     *)
(* call loads the agent row into its session, increments the loaded counters  *)
(* in Python and flushes an UPDATE of the columns it changed; the select      *)
(* takes no lock, so another session's call may run in between.               *)

\* agent = await self.get_agent(agent_id)
MetricsRead(w, success) ==
    /\ updates.sessions[w].pc = "idle"
    /\ updates.calls
         + Cardinality({v \in 1..MaxWriters : updates.sessions[v].pc = "read"}) < MaxMetricCalls
    /\ updates' = [updates EXCEPT !.sessions[w] =
                      [pc |-> "read", success |-> success,
                       total_tasks |-> agents[1].total_tasks,
                       successful_tasks |-> agents[1].successful_tasks,
                       failed_tasks |-> agents[1].failed_tasks]]
    /\ UNCHANGED <<ledger, digests, clock, result, writers>>
    /\ UNCHANGED <<definition, agents, rules, execution, tasks, stack, signals, outside, blocks>>

\* the increments and the flush: UPDATE agents SET the columns that changed
MetricsFlush(w) ==
    /\ updates.sessions[w].pc = "read"
    /\ LET loaded == updates.sessions[w]
       IN  agents' = [agents EXCEPT
                        ![1].total_tasks = loaded.total_tasks + 1,
                        ![1].successful_tasks =
                            IF loaded.success THEN loaded.successful_tasks + 1 ELSE @,
                        ![1].failed_tasks =
                            IF loaded.success THEN @ ELSE loaded.failed_tasks + 1]
    /\ updates' = [updates EXCEPT !.sessions[w] = IdleUpdates.sessions[w],
                                  !.calls = @ + 1]
    /\ UNCHANGED <<ledger, digests, clock, result, writers>>
    /\ UNCHANGED <<definition, rules, execution, tasks, stack, signals, outside, blocks>>

MetricsNext ==
    \/ \E w \in 1..MaxWriters : \E success \in BOOLEAN : MetricsRead(w, success)
    \/ \E w \in 1..MaxWriters : MetricsFlush(w)

MetricsSpec == LedgerInit /\ [][MetricsNext]_vars

-----------------------------------------------------------------------------
(* The scheduler on the task rows of a caller (SchedulerSpec): the rows are   *)
(* stored as start_workflow or a caller's session wrote them, and             *)
(* get_ready_tasks is called on them.                                         *)

TaskStatuses ==
    {"pending", "queued", "running", "waiting_input", "completed", "failed", "skipped",
     "cancelled"}

TaskRow(id, workflow_execution_id, status, depends_on) ==
    [id |-> id, workflow_execution_id |-> workflow_execution_id, task_name |-> id,
     task_type |-> "agent", status |-> status, agent_id |-> NULL,
     input_data |-> [capability |-> "test"], depends_on |-> depends_on,
     retry_count |-> 0, error_message |-> NULL, approvals |-> 0]

\* the depends_on lists: ids of stored tasks and "task-9", the id of no task; an
\* edge listed twice in the definition puts an id twice into the list
DependsOnLists ==
    UNION {[1..n -> {"task-1", "task-2", "task-9"}] : n \in 0..MaxDeps}

\* task-1 in every status, task-2 of this or of another execution, task-3
\* depending on them
SchedulerTables ==
    {<<TaskRow("task-1", ExecutionId, s1, <<>>),
       TaskRow("task-2", e2, s2, <<>>),
       TaskRow("task-3", ExecutionId, s3, depends_on)>> :
        s1 \in TaskStatuses, e2 \in {ExecutionId, "wf-2"}, s2 \in {"completed", "failed"},
        s3 \in {"pending", "running"}, depends_on \in DependsOnLists}

SchedulerInit ==
    /\ ledger = <<>>
    /\ digests = <<>>
    /\ clock = 0
    /\ result = NoResult
    /\ writers = IdleWriters
    /\ definition = NoDefinition
    /\ agents = <<AgentRow("active")>>
    /\ rules = <<OnCompleted>>
    /\ execution = [id |-> ExecutionId, definition_id |-> DefinitionId, status |-> "running",
                    total_tasks |-> 3, completed_tasks |-> 0, error_message |-> NULL]
    /\ tasks \in SchedulerTables
    /\ stack = <<>>
    /\ signals = <<>>
    /\ outside = 0
    /\ blocks = <<>>
    /\ updates = IdleUpdates

GetReadyTasksCall(execution_id) ==
    /\ result' = [op |-> "get_ready_tasks", arg |-> 0,
                  value |-> get_ready_tasks(tasks, execution_id), ok |-> TRUE]
    /\ UNCHANGED <<ledger, digests, clock, writers>>
    /\ UNCHANGED engineVars

SchedulerNext == GetReadyTasksCall(ExecutionId)

SchedulerSpec == SchedulerInit /\ [][SchedulerNext]_vars

-----------------------------------------------------------------------------
(* The condition evaluator on the conditions of a rule and the data of a      *)
(* caller (ConditionSpec).                                                    *)

\* the entries a rule's trigger_conditions may hold; two entries on one key
\* are one operator map with both operators
ConditionEntries ==
    {Cond("score", "eq", Num(2)), Cond("score", "$gt", Num(1)), Cond("score", "$gte", Num(2)),
     Cond("score", "$lt", Num(2)), Cond("score", "$lte", Num(1)),
     Cond("region", "$eq", Str("EU")), Cond("region", "$in", {Str("US"), Str("EU")}),
     Cond("output.score", "$gte", Num(2)), Cond("error", "eq", None)}

ConditionLists == UNION {[1..n -> ConditionEntries] : n \in 0..MaxConditions}

\* the workflow data: every key may be missing
FullData ==
    {[score |-> score, region |-> region, output |-> Dict([score |-> Num(2)])] :
        score \in {Num(1), Num(2)}, region \in {Str("EU"), Str("AP")}}

DataMaps ==
    {[k \in keys |-> full[k]] : full \in FullData, keys \in SUBSET {"score", "region", "output"}}

ConditionInit ==
    /\ ledger = <<>>
    /\ digests = <<>>
    /\ clock = 0
    /\ result = NoResult
    /\ writers = IdleWriters
    /\ definition = NoDefinition
    /\ agents = <<AgentRow("active")>>
    /\ rules \in {<<Rule("r0-conditions", TRUE, NULL, conditions, 10, FALSE, <<>>)>> :
                      conditions \in ConditionLists}
    /\ execution = NoExecution
    /\ tasks = <<>>
    /\ stack = <<>>
    /\ signals = <<>>
    /\ outside = 0
    /\ blocks = <<>>
    /\ updates = IdleUpdates

EvaluateConditionsCall(data) ==
    /\ result' = [op |-> "_evaluate_conditions", arg |-> 0, value |-> data,
                  ok |-> _evaluate_conditions(rules[1].trigger_conditions, data)]
    /\ UNCHANGED <<ledger, digests, clock, writers>>
    /\ UNCHANGED engineVars

ConditionNext == \E data \in DataMaps : EvaluateConditionsCall(data)

ConditionSpec == ConditionInit /\ [][ConditionNext]_vars

-----------------------------------------------------------------------------
(* record_event called from several sessions (WritersSpec).  Each call reads *)
(* the latest sequence and hash, then builds and inserts its row; nothing in *)
(* record_event keeps another session's call from running in between.        *)

\* "Get the next sequence number and previous hash"
WriterRead(w, a) ==
    /\ writers[w].pc = "idle"
    /\ Len(ledger) + Cardinality({v \in 1..MaxWriters : writers[v].pc = "read"}) < MaxEvents
    /\ LET last_sequence == MaxSequence(ledger)
       IN  \E previous_hash \in PreviousHashes(ledger, last_sequence) :
              writers' = [writers EXCEPT ![w] =
                             [pc |-> "read", args |-> a, last_sequence |-> last_sequence,
                              previous_hash |-> previous_hash]]
    /\ UNCHANGED <<ledger, digests, clock, result>>
    /\ UNCHANGED engineVars

\* "Prepare event data for hashing" to the flush
WriterInsert(w, created_at) ==
    /\ writers[w].pc = "read"
    /\ LET tbl == DigestsAfter(digests, writers[w].last_sequence, writers[w].previous_hash,
                               writers[w].args, clock)
           event == BuildEvent(tbl, Len(ledger) + 1, writers[w].last_sequence,
                               writers[w].previous_hash, writers[w].args, clock, created_at)
       IN  /\ digests' = tbl
           /\ IF InsertAccepted(ledger, event)
              THEN /\ ledger' = Append(ledger, event)
                   /\ result' = [op |-> "record_event", arg |-> event.id,
                                 value |-> event.sequence_number, ok |-> TRUE]
              ELSE /\ ledger' = ledger
                   /\ result' = [op |-> "record_event", arg |-> 0, value |-> 0, ok |-> FALSE]
    /\ writers' = [writers EXCEPT ![w] = IdleWriters[w]]
    /\ UNCHANGED clock
    /\ UNCHANGED engineVars

WritersNext ==
    \/ Tick
    \/ \E w \in 1..MaxWriters : \E a \in LedgerInputs : WriterRead(w, a)
    \/ \E w \in 1..MaxWriters : \E created_at \in DbNow(clock) : WriterInsert(w, created_at)

WritersSpec == LedgerInit /\ [][WritersNext]_vars

-----------------------------------------------------------------------------
(* The agent registry (RegistrySpec): a caller activates and deactivates     *)
(* agents and asks for an available one, and the engine runs an execution   *)
(* of one agent task.                                                       *)

RegisteredAgent(id, agent_type, status, capabilities) ==
    [id |-> id, name |-> id, agent_type |-> agent_type, status |-> status,
     capabilities |-> capabilities, total_tasks |-> 0, successful_tasks |-> 0,
     failed_tasks |-> 0]

\* two agents, rows in name order
RegistryTables ==
    {<<RegisteredAgent("agent-1", "claude", status, {"test"}),
       RegisteredAgent("agent-2", agent_type, "registered", capabilities)>> :
        status \in {"registered", "active", "paused"},
        agent_type \in {"claude", "custom"},
        capabilities \in {{}, {"test"}, {"test", "audit"}}}

RegistryInit ==
    /\ ledger = <<>>
    /\ digests = <<>>
    /\ clock = 0
    /\ result = NoResult
    /\ writers = IdleWriters
    /\ definition = SingleDefinition
    /\ agents \in RegistryTables
    /\ rules = <<OnCompleted>>
    /\ execution = NoExecution
    /\ tasks = <<>>
    /\ stack = <<>>
    /\ signals = <<>>
    /\ outside = 0
    /\ blocks = <<>>
    /\ updates = IdleUpdates

\* what a registry call leaves alone
RegistryFrame ==
    /\ UNCHANGED <<ledger, digests, clock, writers>>
    /\ UNCHANGED <<definition, rules, execution, tasks, stack, signals, outside, blocks,
                   updates>>

\* get_agent(agent_id): the rows with the id (none: ValueError)
AgentsWithId(agent_id) == {a \in 1..Len(agents) : agents[a].id = agent_id}

SetStatusCall(op, agent_id, status) ==
    /\ stack = <<>>
    /\ IF AgentsWithId(agent_id) = {}
       THEN /\ result' = [op |-> op, arg |-> agent_id, value |-> <<>>, ok |-> FALSE]
            /\ UNCHANGED agents
       ELSE /\ agents' = [a \in 1..Len(agents) |->
                            IF agents[a].id = agent_id
                            THEN [agents[a] EXCEPT !.status = status] ELSE agents[a]]
            /\ result' = [op |-> op, arg |-> agent_id, value |-> <<>>, ok |-> TRUE]
    /\ RegistryFrame

ActivateAgentCall(agent_id) == SetStatusCall("activate_agent", agent_id, "active")

DeactivateAgentCall(agent_id) == SetStatusCall("deactivate_agent", agent_id, "deactivated")

FindAvailableAgentCall(capability) ==
    /\ stack = <<>>
    /\ result' = [op |-> "find_available_agent", arg |-> capability,
                  value |-> find_available_agent(agents, capability), ok |-> TRUE]
    /\ UNCHANGED agents
    /\ RegistryFrame

RegistryNext ==
    \/ StartWorkflow
    \/ DispatchAgentSuccess
    \/ DispatchAgentError
    \/ DispatchNoAgent
    \/ \E agent_id \in {"agent-1", "agent-2", "agent-9"} : ActivateAgentCall(agent_id)
    \/ \E agent_id \in {"agent-1", "agent-2", "agent-9"} : DeactivateAgentCall(agent_id)
    \/ \E capability \in {NULL, "", "test", "audit"} : FindAvailableAgentCall(capability)

RegistrySpec == RegistryInit /\ [][RegistryNext]_vars

-----------------------------------------------------------------------------
(* Reading the ledger *)

EventsOf(l, workflow_id, event_type) ==
    {i \in 1..Len(l) : l[i].workflow_id = workflow_id /\ l[i].event_type = event_type}

Count(event_type) == Cardinality(EventsOf(ledger, ExecutionId, event_type))

Started == execution.status # "none"
Quiescent == Started /\ stack = <<>>

\* the task row an event is about
TaskOfEvent(i) == CHOOSE t \in 1..Len(tasks) : tasks[t].id = ledger[i].task_id

\* every dispatch so far found an agent and its invocation succeeded
AllInvocationsSucceeded ==
    /\ Count("agent_error") = 0
    /\ Count("task_retried") = 0
    /\ Count("task_failed") = 0

\* the task_completed events respect the dependencies: a task's dependencies
\* all have an earlier task_completed event
CompletedInTopologicalOrder ==
    \A i \in EventsOf(ledger, ExecutionId, "task_completed") :
        \A k \in 1..Len(tasks[TaskOfEvent(i)].depends_on) :
            \E j \in EventsOf(ledger, ExecutionId, "task_completed") :
                /\ ledger[j].task_id = tasks[TaskOfEvent(i)].depends_on[k]
                /\ ledger[j].sequence_number < ledger[i].sequence_number

-----------------------------------------------------------------------------
(* Claims about the workflow engine (Spec) *)

\* C1: on the fan-out/fan-in DAG, when every agent invocation succeeds, running
\* start_workflow to quiescence records exactly one task_completed event per task,
\* in topological order, and the execution ends completed.
C1_DiamondRunsEachTaskOnce ==
    (/\ Quiescent
     /\ definition = DiamondDefinition
     /\ outside = 0
     /\ AllInvocationsSucceeded
     /\ agents[1].status = "active")
    => /\ Count("task_completed") = Len(tasks)
       /\ \A t \in 1..Len(tasks) :
             Cardinality({i \in EventsOf(ledger, ExecutionId, "task_completed") :
                             ledger[i].task_id = tasks[t].id}) = 1
       /\ CompletedInTopologicalOrder
       /\ execution.status = "completed"

\* C2: completed_tasks <= total_tasks, and a completed execution has
\* completed_tasks = total_tasks.
C2_CompletedTasksBounded ==
    /\ execution.completed_tasks <= execution.total_tasks
    /\ (execution.status = "completed" =>
            execution.completed_tasks = execution.total_tasks)

\* C3: a task in a terminal status (completed, failed, skipped, cancelled) keeps
\* that status in every step.
C3_TerminalTaskStatusImmutable ==
    [][\A t \in 1..Len(tasks) :
          tasks[t].status \in TerminalTaskStatuses => tasks'[t].status = tasks[t].status]_vars

\* C4: workflow_completed has a higher sequence number than every task_completed
\* event of the execution.
C4_WorkflowCompletedAfterTasks ==
    \A i \in EventsOf(ledger, ExecutionId, "workflow_completed") :
        \A j \in EventsOf(ledger, ExecutionId, "task_completed") :
            ledger[j].sequence_number < ledger[i].sequence_number

\* C5: every settlement_triggered event of an execution comes after a
\* workflow_completed event of that execution (so there is none without one).
C5_SettlementAfterWorkflowCompleted ==
    \A j \in 1..Len(ledger) :
        ledger[j].event_type = "settlement_triggered" =>
            \E i \in EventsOf(ledger, ledger[j].workflow_id, "workflow_completed") :
                ledger[i].sequence_number < ledger[j].sequence_number

C5_Witness ==
    /\ Count("settlement_triggered") > 0
    /\ Count("workflow_completed") > 0

\* C6: an execution with a task that exhausted its retries and that was failed
\* has no settlement signal and no settlement_triggered event.
C6_NoSettlementForFailedWorkflow ==
    (Count("task_failed") > 0 /\ Count("workflow_failed") > 0)
    => /\ \A k \in 1..Len(signals) : signals[k].workflow_execution_id # ExecutionId
       /\ Count("settlement_triggered") = 0

\* the events of one type about task row t
TaskEvents(t, event_type) ==
    {i \in EventsOf(ledger, ExecutionId, event_type) : ledger[i].task_id = tasks[t].id}

\* task t was invoked and every invocation raised
AlwaysRaises(t) ==
    /\ TaskEvents(t, "agent_error") # {}
    /\ TaskEvents(t, "agent_response") = {}
    /\ TaskEvents(t, "task_completed") = {}

\* C14: for a task whose agent invocation raises on every attempt (retry limit
\* 3), the ledger ends up with exactly three task_retried events followed by
\* exactly one task_failed event for the task and exactly one workflow_failed
\* event for the execution.
C14_ThreeRetriesThenFailed ==
    Quiescent =>
        \A t \in 1..Len(tasks) :
            AlwaysRaises(t) =>
                /\ Cardinality(TaskEvents(t, "task_retried")) = 3
                /\ Cardinality(TaskEvents(t, "task_failed")) = 1
                /\ Count("workflow_failed") = 1
                /\ \A i \in TaskEvents(t, "task_retried") :
                       \A j \in TaskEvents(t, "task_failed") :
                           ledger[i].sequence_number < ledger[j].sequence_number

\* a task was reset to pending after a failed attempt and is waiting
RetriedPending ==
    /\ execution.status = "running"
    /\ \E t \in 1..Len(tasks) : tasks[t].status = "pending" /\ tasks[t].retry_count > 0

\* C15: a task reset to pending after a failed attempt is dispatched again
\* without an external call, so no execution stays running forever with a
\* retried task left pending: while such a task waits, an activation of
\* execute_next_tasks still has a dispatch to make.  (Once every activation has
\* returned, nothing runs until the next call from outside.)
C15_RetriedTaskIsRedispatched == RetriedPending => Dispatching

\* C16: start_workflow on a definition whose is_active is false has no side
\* effects: no WorkflowExecution, no TaskExecution and no ledger event exists.
C16_InactiveDefinitionStartsNothing ==
    ~definition.is_active =>
        /\ execution = NoExecution
        /\ tasks = <<>>
        /\ ledger = <<>>
        /\ signals = <<>>

C16_Witness ==
    /\ ~definition.is_active
    /\ result.op = "start_workflow"
    /\ ~result.ok

TaskIds(defn) == {defn.tasks[k].id : k \in 1..Len(defn.tasks)}

\* the ids reached from the ids in S along at most k edges
RECURSIVE ReachFrom(_, _, _)
ReachFrom(edges, S, k) ==
    IF k = 0 THEN S
    ELSE ReachFrom(edges,
                   S \cup {edges[i].to : i \in {j \in 1..Len(edges) : edges[j].from \in S}},
                   k - 1)

\* some edge closes a cycle (a self-loop is a cycle of one edge)
HasCycle(edges) ==
    \E i \in 1..Len(edges) : edges[i].from \in ReachFrom(edges, {edges[i].to}, Len(edges))

EdgesFormDag(defn) ==
    /\ \A i \in 1..Len(defn.edges) :
           defn.edges[i].from \in TaskIds(defn) /\ defn.edges[i].to \in TaskIds(defn)
    /\ ~HasCycle(defn.edges)

\* C17: create_definition stores no definition whose edges contain a self-loop,
\* a cycle or an endpoint that is not the id of one of its tasks: the edges of
\* every stored definition form a DAG over its task ids.
C17_StoredDefinitionsAreDags ==
    definition # NoDefinition => EdgesFormDag(definition)

-----------------------------------------------------------------------------
(* Claims about settlement (SettlementSpec) *)

\* the rule a signal was generated from
RuleOf(signal) ==
    rules[CHOOSE r \in 1..Len(rules) : rules[r].id = signal.settlement_rule_id]

\* the rule required approval and the amount met its threshold
ApprovalRequired(signal) ==
    /\ RuleOf(signal).requires_approval
    /\ \/ RuleOf(signal).approval_threshold = <<>>
       \/ signal.amount >= RuleOf(signal).approval_threshold[1]

C19_ApprovedSignalsNameTheirApprover ==
    \A k \in 1..Len(signals) :
        (signals[k].status \in {"approved", "processing", "completed"}
         /\ ApprovalRequired(signals[k]))
        => /\ signals[k].approved_by # NULL
           /\ signals[k].approved_at # <<>>

C19_Witness ==
    \E k \in 1..Len(signals) :
        /\ signals[k].status = "completed"
        /\ ApprovalRequired(signals[k])
        /\ signals[k].approved_by = "alice"

\* C20: approve_signal on a signal that is not pending, and process_signal on a
\* signal that is not approved or processing, raise an error, leave every
\* signal as it was and record no ledger event.
C20_WrongStatusCallsChangeNothing ==
    [][\A k \in 1..Len(signals) :
          (/\ result' # result
           /\ result'.arg = k
           /\ \/ result'.op = "approve_signal" /\ signals[k].status # "pending"
              \/ result'.op = "process_signal"
                 /\ signals[k].status \notin {"approved", "processing"})
          => /\ ~result'.ok
             /\ signals' = signals
             /\ ledger' = ledger]_vars

\* process_signal was refused on a signal still pending, approve_signal on a
\* signal already completed
C20_Witness ==
    /\ ~result.ok
    /\ \/ result.op = "process_signal" /\ signals[result.arg].status = "pending"
       \/ result.op = "approve_signal" /\ signals[result.arg].status = "completed"

-----------------------------------------------------------------------------
(* Claims about the ledger *)

EventAt(l, n) == {i \in 1..Len(l) : l[i].sequence_number = n}

C8_SequenceGapFree ==
    /\ SeqNumbers(ledger) = 1..Len(ledger)
    /\ \A i \in 1..Len(ledger) : ledger[i].sequence_number = i
    /\ (result.op = "record_event" => result.ok /\ result.value = Len(ledger))
    /\ (result.op = "get_latest_sequence" => result.value = Len(ledger))

C8_Witness ==
    /\ Len(ledger) = MaxEvents
    /\ result.op = "get_latest_sequence"
    /\ result.value = MaxEvents

\* C9: when record_event calls interleave, no two persisted events share a
\* sequence_number or a previous_hash.
C9_InterleavedWritersDoNotCollide ==
    \A i, j \in 1..Len(ledger) :
        i # j => /\ ledger[i].sequence_number # ledger[j].sequence_number
                 /\ ledger[i].previous_hash # ledger[j].previous_hash

\* C10: for every event written by record_event, the hash recomputed from the
\* stored fields and the stored created_at is the stored event_hash: verify_event
\* returns (true, null).
C10_RecordedEventsVerify ==
    \A i \in 1..Len(ledger) : verify_event(ledger, digests, ledger[i].id).ok

\* C11: on a ledger written only by record_event, verify_chain_range(start, end)
\* returns (true, []) for every range 1 <= start <= end <= latest sequence.
C11_EveryRangeVerifies ==
    \A start_sequence, end_sequence \in 1..get_latest_sequence(ledger) :
        start_sequence <= end_sequence =>
            verify_chain_range(ledger, digests, start_sequence, end_sequence)
                = [ok |-> TRUE, errors |-> <<>>]

\* the errors verify_chain_range reports besides those of verify_event
ChainBreaks(start_sequence, end_sequence) ==
    SelectSeq(verify_chain_range(ledger, digests, start_sequence, end_sequence).errors,
              LAMBDA e : e.error = "Chain break - previous hash mismatch")

\* C12: once the payload of the stored event at sequence k was changed,
\* verify_event on that event returns false, and verify_chain_range over every
\* range containing k returns (false, errors) whose first error is at sequence k.
C12_TamperedEventIsFirstError ==
    \A i \in Tampered(ledger) :
        LET k == ledger[i].sequence_number
        IN  /\ ~verify_event(ledger, digests, ledger[i].id).ok
            /\ \A start_sequence, end_sequence \in 1..get_latest_sequence(ledger) :
                   (start_sequence <= k /\ k <= end_sequence) =>
                       LET checked == verify_chain_range(ledger, digests,
                                                         start_sequence, end_sequence)
                       IN  /\ ~checked.ok
                           /\ checked.errors # <<>>
                           /\ checked.errors[1].sequence = k

\* C13: an insert that collides with a stored event on sequence_number or on
\* event_hash is rejected: no two stored events share a sequence_number or an
\* event_hash, and a rejected record_event leaves the ledger as it was.
C13_CollidingInsertsRejected ==
    [][/\ \A i, j \in 1..Len(ledger') :
              i # j => /\ ledger'[i].sequence_number # ledger'[j].sequence_number
                       /\ ledger'[i].event_hash # ledger'[j].event_hash
       /\ (result'.op = "record_event" /\ ~result'.ok) => ledger' = ledger]_vars

\* the second of two record_event calls with identical hash inputs was rejected
IdenticalInsertRejected ==
    /\ result.op = "record_event"
    /\ ~result.ok
    /\ Len(ledger) = 1

-----------------------------------------------------------------------------
(* Claims about the signal state machine (SettlementSpec) *)

ActiveSignalStatuses == {"pending", "approved", "processing"}

\* C21: signal transitions are forward-only: a signal in completed or cancelled
\* keeps its status in every step, and a signal that becomes failed was in an
\* active status (pending, approved, processing) just before.
C21_SignalTransitionsForwardOnly ==
    [][\A k \in 1..Len(signals) :
          /\ signals[k].status \in {"completed", "cancelled"} =>
                 signals'[k].status = signals[k].status
          /\ (signals'[k].status = "failed" /\ signals[k].status # "failed") =>
                 signals[k].status \in ActiveSignalStatuses]_vars

-----------------------------------------------------------------------------
(* Claims about blocks (BlockSpec) *)

\* C22: after any sequence of create_block calls, the block numbers are 1..B in
\* creation order and the ranges [start_sequence, end_sequence] are pairwise
\* non-overlapping and contiguous: each block starts at the end of the block
\* before plus one.
C22_BlocksNumberedAndContiguous ==
    /\ \A i \in 1..Len(blocks) : blocks[i].block_number = i
    /\ \A i \in 2..Len(blocks) : blocks[i].start_sequence = blocks[i - 1].end_sequence + 1
    /\ \A i, j \in 1..Len(blocks) :
           i # j => \/ blocks[i].end_sequence < blocks[j].start_sequence
                    \/ blocks[j].end_sequence < blocks[i].start_sequence

\* verify_chain_range over the whole ledger finds no error
LedgerVerifies == verify_chain_range(ledger, digests, 1, get_latest_sequence(ledger)).ok

\* C23: create_block refuses to finalize while the ledger contains an event
\* that fails hash or continuity verification: no step from such a ledger adds
\* a block.
C23_NoBlockOverFailingLedger ==
    [][~LedgerVerifies => blocks' = blocks]_vars

\* the depth of the tree over n leaves
Depth(n) == CHOOSE d \in 0..n : 2^d >= n /\ (d = 0 \/ 2^(d - 1) < n)

\* the root of the binary tree of the given depth over the leaves: a node
\* without right child pairs its left child with itself
RECURSIVE MerkleTree(_, _, _)
MerkleTree(tbl, leaves, depth) ==
    IF depth = 0 THEN leaves[1]
    ELSE LET half == 2^(depth - 1)
             left == MerkleTree(tbl, SubSeq(leaves, 1, IF Len(leaves) < half
                                                       THEN Len(leaves) ELSE half),
                                depth - 1)
             right == IF Len(leaves) > half
                      THEN MerkleTree(tbl, SubSeq(leaves, half + 1, Len(leaves)), depth - 1)
                      ELSE left
         IN  hash(tbl, Concat(left, right))

\* the events of the block's range are those it was created over
EventsUnchanged(block) ==
    Len(EventRange(ledger, block.start_sequence, block.end_sequence)) = block.event_count

\* C24: for a block created by create_block over a non-empty range whose events
\* and row are unchanged, verify_block returns (true, null): the stored
\* merkle_root is the Merkle root of the event hashes of the range (pairwise
\* hashing, the last leaf duplicated on odd levels) and the stored block_hash
\* is the hash recomputed from the block's fields.
C24_CreatedBlocksVerify ==
    \A b \in 1..Len(blocks) :
        EventsUnchanged(blocks[b]) =>
            LET leaves == EventHashes(EventRange(ledger, blocks[b].start_sequence,
                                                 blocks[b].end_sequence))
            IN  /\ verify_block(ledger, digests, blocks, blocks[b].block_number)
                      = [ok |-> TRUE, error |-> NULL]
                /\ blocks[b].merkle_root = MerkleTree(digests, leaves, Depth(Len(leaves)))
                /\ blocks[b].block_hash =
                      hash_event(digests,
                                 BlockData(blocks[b].block_number, blocks[b].start_sequence,
                                           blocks[b].end_sequence, blocks[b].merkle_root,
                                           blocks[b].previous_block_hash))

\* verify_block accepted a block over three events (an odd level)
C24_Witness ==
    /\ result.op = "verify_block"
    /\ result.ok
    /\ blocks[result.arg].event_count = 3
    /\ EventsUnchanged(blocks[result.arg])

-----------------------------------------------------------------------------
(* Claims about the agent registry (MetricsSpec) *)

\* C25: concurrent update_agent_metrics calls on one agent lose no update: once
\* k calls have returned total_tasks has grown by exactly k (it started at 0),
\* and total_tasks = successful_tasks + failed_tasks in every state.
C25_NoMetricUpdateLost ==
    /\ agents[1].total_tasks = updates.calls
    /\ agents[1].total_tasks = agents[1].successful_tasks + agents[1].failed_tasks

-----------------------------------------------------------------------------
(* Claims about the scheduler (SchedulerSpec) *)

\* task row t is pending, and every id of its depends_on is the id of a
\* completed task of the same execution
AllDependenciesCompleted(ts, execution_id, t) ==
    /\ ts[t].workflow_execution_id = execution_id
    /\ ts[t].status = "pending"
    /\ \A k \in 1..Len(ts[t].depends_on) :
           \E j \in 1..Len(ts) :
               /\ ts[j].id = ts[t].depends_on[k]
               /\ ts[j].workflow_execution_id = execution_id
               /\ ts[j].status = "completed"

\* C26: get_ready_tasks returns exactly the pending tasks whose every
\* depends_on id refers to a completed task of the same execution; it never
\* returns a task with a dependency in another status or a dependency that
\* is missing.
C26_ReadyTasksAreThoseWithCompletedDependencies ==
    result.op = "get_ready_tasks" =>
        \A t \in 1..Len(tasks) :
            (\E k \in 1..Len(result.value) : result.value[k] = t)
                <=> AllDependenciesCompleted(tasks, ExecutionId, t)

-----------------------------------------------------------------------------
(* Claims about dispatch (Spec) *)

\* the dispatch of task row t found no active agent
NoAgentFound(t) == tasks[t].error_message = "No available agent found"

\* C27: an agent task dispatched when no active agent matches is marked failed
\* with an explanatory message and is not retried: no task_retried event is
\* recorded for it and its status is not reset to pending.
C27_NoAgentFailsWithoutRetry ==
    \A t \in 1..Len(tasks) :
        NoAgentFound(t) =>
            /\ tasks[t].status = "failed"
            /\ TaskEvents(t, "task_retried") = {}

\* task row t is a human_approval task waiting for its answer
WaitingForApproval(t) ==
    tasks[t].task_type = "human_approval" /\ tasks[t].status = "waiting_input"

\* the task rows that depend on task row t
Dependents(t) ==
    {d \in 1..Len(tasks) : \E k \in 1..Len(tasks[d].depends_on) :
                              tasks[d].depends_on[k] = tasks[t].id}

\* C28: while a human_approval task is waiting_input, none of its dependents
\* is dispatched (no task_started event for them), completed_tasks is not
\* incremented for it (it counts the task_completed events, none of which is
\* about the waiting task), and the execution does not become completed.
C28_WaitingApprovalBlocksDependents ==
    \A t \in 1..Len(tasks) :
        WaitingForApproval(t) =>
            /\ \A d \in Dependents(t) : TaskEvents(d, "task_started") = {}
            /\ TaskEvents(t, "task_completed") = {}
            /\ execution.completed_tasks = Count("task_completed")
            /\ execution.status # "completed"

-----------------------------------------------------------------------------
(* Claims about trigger evaluation (SettlementSpec) *)

\* the rule is active, of the execution's definition or of none, and its
\* conditions hold on the workflow data
RuleApplies(rule, workflow_data) ==
    /\ rule.is_active
    /\ rule.workflow_definition_id \in {NULL, execution.definition_id}
    /\ _evaluate_conditions(rule.trigger_conditions, workflow_data)

\* the signals a step added for the rule
GeneratedFor(rule) ==
    {k \in (Len(signals) + 1)..Len(signals') : signals'[k].settlement_rule_id = rule.id}

\* C29: evaluate_triggers generates exactly one signal for each rule that is
\* active, scoped to the execution's definition or unscoped, and whose
\* conditions hold on the workflow data, and none for a rule that is inactive,
\* scoped to another definition or whose conditions fail.
C29_OneSignalPerApplicableRule ==
    [][\A workflow_data \in WorkflowDataInputs :
          EvaluateTriggersCall(workflow_data) =>
              \A r \in 1..Len(rules) :
                  Cardinality(GeneratedFor(rules[r]))
                      = IF RuleApplies(rules[r], workflow_data) THEN 1 ELSE 0]_vars

-----------------------------------------------------------------------------
(* Claims about the condition evaluator (ConditionSpec) *)

\* the path of the entry leads to a value of the data
PathPresent(data, key) == Actual(data, key) # None

\* one entry as the claim reads it: false on a missing path; equality for a
\* bare value and $eq, numeric order for $gt, $gte, $lt, $lte, membership
\* for $in
EntryHolds(c, data) ==
    /\ PathPresent(data, c.key)
    /\ LET actual == Actual(data, c.key)
       IN  CASE c.op \in {"eq", "$eq"} -> actual = c.expected
             [] c.op = "$gt"  -> actual.n > c.expected.n
             [] c.op = "$gte" -> actual.n >= c.expected.n
             [] c.op = "$lt"  -> actual.n < c.expected.n
             [] c.op = "$lte" -> actual.n <= c.expected.n
             [] c.op = "$in"  -> actual \in c.expected

\* C30: the condition evaluator returns true exactly when every entry holds
\* (AND): bare value or $eq as equality, $gt/$gte/$lt/$lte as numeric
\* comparisons, $in as membership; an entry whose (dot-notation) path is
\* missing from the data makes the whole result false.
C30_ConditionsAreConjoined ==
    result.op = "_evaluate_conditions" =>
        (result.ok <=> \A k \in 1..Len(rules[1].trigger_conditions) :
                            EntryHolds(rules[1].trigger_conditions[k], result.value))

-----------------------------------------------------------------------------
(* Claims about the engine's dispatches (Spec) *)

AgentOutcomes == {"agent_response", "agent_error"}

SameIds(i, j) ==
    /\ ledger[i].workflow_id = ledger[j].workflow_id
    /\ ledger[i].task_id = ledger[j].task_id
    /\ ledger[i].agent_id = ledger[j].agent_id

\* C31: every agent invocation records agent_invoked before the call and then
\* exactly one of agent_response or agent_error after it, with the workflow,
\* task and agent ids of the invocation; after agent_error the exception
\* reaches the caller, whose failure handling records the task's retry or failure.
C31_InvocationRecordsInvokedThenOutcome ==
    \A i \in 1..Len(ledger) :
        /\ ledger[i].event_type = "agent_invoked" =>
              /\ i < Len(ledger)
              /\ ledger[i + 1].event_type \in AgentOutcomes
              /\ SameIds(i, i + 1)
              /\ ledger[i].workflow_id = ExecutionId
              /\ \E t \in 1..Len(tasks) :
                     tasks[t].id = ledger[i].task_id /\ tasks[t].agent_id = ledger[i].agent_id
        /\ ledger[i].event_type \in AgentOutcomes =>
              /\ i > 1
              /\ ledger[i - 1].event_type = "agent_invoked"
        /\ ledger[i].event_type = "agent_error" =>
              /\ i < Len(ledger)
              /\ ledger[i + 1].event_type \in {"task_retried", "task_failed"}
              /\ ledger[i + 1].task_id = ledger[i].task_id

C31_Witness ==
    /\ Count("agent_response") > 0
    /\ Count("agent_error") > 0

-----------------------------------------------------------------------------
(* Claims about the agent registry (RegistrySpec) *)

\* the agents find_available_agent may return for a capability
Available(capability) ==
    {a \in 1..Len(agents) :
        /\ agents[a].status = "active"
        /\ (Given(capability) => capability \in agents[a].capabilities)}

\* the tasks an agent is assigned to in this step
Assigned ==
    {t \in 1..Len(tasks') :
        /\ tasks'[t].agent_id # NULL
        /\ (t > Len(tasks) \/ tasks'[t].agent_id # tasks[t].agent_id)}

\* C33: find_available_agent returns an agent only if its status is active and,
\* when a capability is given, the capability is among its capabilities; it
\* returns none when there is no such agent; and a step that assigns an agent
\* to a task assigns one that is active (never one that is only registered,
\* or deactivated).
C33_OnlyActiveMatchingAgentsAreFound ==
    [][/\ result'.op = "find_available_agent" =>
            /\ result'.value # <<>> =>
                  \E a \in Available(result'.arg) : agents[a] = result'.value[1]
            /\ Available(result'.arg) = {} => result'.value = <<>>
       /\ \A t \in Assigned :
              \E a \in 1..Len(agents) :
                 /\ agents[a].id = tasks'[t].agent_id
                 /\ agents[a].status = "active"]_vars

C33_Witness ==
    /\ result.op = "find_available_agent"
    /\ result.arg = "test"
    /\ result.value # <<>>
    /\ \E a \in 1..Len(agents) :
          agents[a].status # "active" /\ "test" \in agents[a].capabilities
    /\ tasks # <<>>
    /\ tasks[1].agent_id # NULL

-----------------------------------------------------------------------------
(* Claims about the task rows of an execution (StartSpec) *)

\* the rows created for the definition task with this id
CreatedFor(def_id) == {t \in 1..Len(tasks) : tasks[t].task_name = def_id}

DependsOnSet(t) == {tasks[t].depends_on[k] : k \in 1..Len(tasks[t].depends_on)}

\* the ids of the rows created for the sources of the edges into row t
SourceRows(t) ==
    {tasks[u].id : u \in {v \in 1..Len(tasks) :
        \E e \in 1..Len(definition.edges) :
            /\ definition.edges[e].to = tasks[t].task_name
            /\ definition.edges[e].from = tasks[v].task_name}}

-----------------------------------------------------------------------------
(* Claims about the end of an execution (Spec) *)

SignalsFor(rule) ==
    {k \in 1..Len(signals) :
        /\ signals[k].workflow_execution_id = ExecutionId
        /\ signals[k].settlement_rule_id = rule.id}

\* C34: for each execution and settlement rule at most one settlement signal is
\* ever generated, whatever the order of dispatches and completions.
C34_OneSignalPerExecutionAndRule ==
    \A r \in 1..Len(rules) : Cardinality(SignalsFor(rules[r])) <= 1

\* C35: at most one workflow_completed event is recorded per execution.
C35_WorkflowCompletedOnce == Count("workflow_completed") <= 1

\* C36: whenever the execution's status is completed, every one of its tasks
\* has status completed.
C36_CompletedExecutionHasCompletedTasks ==
    execution.status = "completed" =>
        \A t \in 1..Len(tasks) : tasks[t].status = "completed"

TerminalExecutionStatuses == {"completed", "failed"}

\* C37: once the execution's status is completed or failed, no step changes it.
C37_TerminalExecutionStatusAbsorbing ==
    [][execution.status \in TerminalExecutionStatuses =>
          execution'.status = execution.status]_vars

\* the events of the execution that close it
ClosingEvents ==
    EventsOf(ledger, ExecutionId, "workflow_completed")
        \cup EventsOf(ledger, ExecutionId, "workflow_failed")

\* C38: no task_started or agent_invoked event of the execution is recorded
\* after its workflow_completed or workflow_failed event.
C38_NoDispatchAfterTerminalStatus ==
    \A i \in ClosingEvents :
        \A j \in EventsOf(ledger, ExecutionId, "task_started")
                    \cup EventsOf(ledger, ExecutionId, "agent_invoked") :
            ledger[j].sequence_number < ledger[i].sequence_number

\* the rows task row t depends on
DependencyRows(t) ==
    {u \in 1..Len(tasks) : \E k \in 1..Len(tasks[t].depends_on) :
                              tasks[u].id = tasks[t].depends_on[k]}

\* a task_started event about row t is recorded in this step
StartedInStep(t) ==
    \E i \in Len(ledger) + 1..Len(ledger') :
        ledger'[i].event_type = "task_started" /\ ledger'[i].task_id = tasks[t].id

\* C39: in engine-driven execution a task_started event for a task is recorded
\* only when every task in its depends_on has status completed, hence after a
\* task_completed event of each of them.
C39_StartedOnlyAfterDependencies ==
    [][outside' = 0 =>
          \A t \in 1..Len(tasks) :
             StartedInStep(t) =>
                \A u \in DependencyRows(t) :
                   /\ tasks[u].status = "completed"
                   /\ TaskEvents(u, "task_completed") # {}]_vars

C39_Witness ==
    /\ outside = 0
    /\ \E t \in 1..Len(tasks) :
          /\ Cardinality(DependencyRows(t)) = 2
          /\ TaskEvents(t, "task_started") # {}

-----------------------------------------------------------------------------
(* start_workflow run to its return (CompletionSpec): the definition is      *)
(* acyclic, its tasks are agent, decision or parallel tasks, the agent is    *)
(* active and has the tasks' capability, and no invocation raises.           *)

TypedTaskLists ==
    TaskLists \cup {<<TaskDef("A", "parallel", NULL), TaskDef("B", "decision", NULL),
                       TaskDef("C", "agent", "test")>>}

AcyclicDefinitions ==
    {DiamondDefinition} \cup
    {d \in {[id |-> DefinitionId, name |-> "created", is_active |-> TRUE,
              tasks |-> task_list, edges |-> edge_list] :
                 task_list \in TypedTaskLists, edge_list \in EdgeLists} :
        EdgesFormDag(d)}

CompletionInit ==
    /\ ledger = <<>>
    /\ digests = <<>>
    /\ clock = 0
    /\ result = NoResult
    /\ writers = IdleWriters
    /\ definition \in AcyclicDefinitions
    /\ agents = <<AgentRow("active")>>
    /\ rules \in RuleTables
    /\ execution = NoExecution
    /\ tasks = <<>>
    /\ stack = <<>>
    /\ signals = <<>>
    /\ outside = 0
    /\ blocks = <<>>
    /\ updates = IdleUpdates

CompletionNext ==
    \/ StartWorkflow
    \/ DispatchAgentSuccess
    \/ DispatchDecision
    \/ DispatchParallel

CompletionSpec == CompletionInit /\ [][CompletionNext]_vars

\* the innermost execute_next_tasks has a task to dispatch, and the dispatch
\* can be made
CanDispatch ==
    /\ Dispatching
    /\ \/ tasks[CurTask].task_type \in {"decision", "parallel"}
       \/ /\ tasks[CurTask].task_type = "agent"
          /\ find_available_agent(agents, tasks[CurTask].input_data.capability) # <<>>

\* C40: on an acyclic definition of agent, decision and parallel tasks whose
\* invocations all succeed, start_workflow terminates and the execution reaches
\* status completed: every step of the call records an event, the call can go
\* on until it returns, and when it has returned the status is completed.
C40_AcyclicWorkflowCompletes ==
    [][/\ Len(ledger') > Len(ledger)
       /\ stack' # <<>> => CanDispatch'
       /\ stack' = <<>> => execution'.status = "completed"]_vars
====
